---- MODULE Spec2Model ----
(***************************************************************************)
(* Model of src/halton.py: the Halton sequence class `halton` with its     *)
(* constructor, evaluate(), evaluateone(), run_gen_primes() and the        *)
(* generator gen_primes().                                                 *)
(*                                                                         *)
(* Python's `/` is true division: it yields an IEEE-754 binary64 value,    *)
(* correctly rounded (round to nearest, ties to even).  evaluateone uses   *)
(* it both for the weight f and, inside math.floor, for the working index. *)
(* The arithmetic below therefore carries binary64 values exactly, as      *)
(* sign, 53-bit significand and exponent.  Python integers are unbounded   *)
(* and binary64 significands exceed the range of TLC's integers, so        *)
(* magnitudes are little-endian sequences of 15-bit limbs.                 *)
(***************************************************************************)
EXTENDS Integers, Sequences, FiniteSets, TLC

(***************************************************************************)
(* Natural numbers of any size: sequences of limbs, least significant      *)
(* first, without most significant zero limbs; zero is << >>.              *)
(***************************************************************************)
LimbBase == 2^15

\* Op applied to the value of v, which is computed once.
Eval(v, Op(_)) == CHOOSE y \in { Op(w) : w \in {v} } : TRUE

RECURSIVE BNorm(_)
BNorm(a) ==
  IF a = << >> THEN << >>
  ELSE IF a[Len(a)] = 0 THEN BNorm(SubSeq(a, 1, Len(a) - 1))
  ELSE a

RECURSIVE BFromInt(_)
BFromInt(n) ==
  IF n = 0 THEN << >> ELSE <<n % LimbBase>> \o BFromInt(n \div LimbBase)

\* Only for magnitudes known to be below 2^30.
RECURSIVE BToInt(_)
BToInt(a) ==
  IF a = << >> THEN 0 ELSE a[1] + LimbBase * BToInt(Tail(a))

RECURSIVE BCmpFrom(_, _, _)
BCmpFrom(a, b, k) ==
  IF k = 0 THEN 0
  ELSE IF a[k] < b[k] THEN -1
  ELSE IF a[k] > b[k] THEN 1
  ELSE BCmpFrom(a, b, k - 1)

BCmp(a, b) ==
  IF Len(a) < Len(b) THEN -1
  ELSE IF Len(a) > Len(b) THEN 1
  ELSE BCmpFrom(a, b, Len(a))

BLimb(a, k) == IF k <= Len(a) THEN a[k] ELSE 0

RECURSIVE BAddFrom(_, _, _, _)
BAddFrom(a, b, k, carry) ==
  IF k > Len(a) /\ k > Len(b)
  THEN IF carry = 0 THEN << >> ELSE <<carry>>
  ELSE LET s == BLimb(a, k) + BLimb(b, k) + carry
       IN  <<s % LimbBase>> \o BAddFrom(a, b, k + 1, s \div LimbBase)

BAdd(a, b) == BAddFrom(a, b, 1, 0)

\* a - b for a >= b.
RECURSIVE BSubFrom(_, _, _, _)
BSubFrom(a, b, k, borrow) ==
  IF k > Len(a) THEN << >>
  ELSE LET s == BLimb(a, k) - BLimb(b, k) - borrow
       IN  IF s < 0
           THEN <<s + LimbBase>> \o BSubFrom(a, b, k + 1, 1)
           ELSE <<s>> \o BSubFrom(a, b, k + 1, 0)

BSub(a, b) == BNorm(BSubFrom(a, b, 1, 0))

\* a * m for 0 <= m <= LimbBase.
RECURSIVE BMulFrom(_, _, _, _)
BMulFrom(a, m, k, carry) ==
  IF k > Len(a)
  THEN IF carry = 0 THEN << >> ELSE <<carry>>
  ELSE LET s == a[k] * m + carry
       IN  <<s % LimbBase>> \o BMulFrom(a, m, k + 1, s \div LimbBase)

BMulSmall(a, m) == BNorm(BMulFrom(a, m, 1, 0))

\* Quotient and remainder of a by d, 1 <= d <= LimbBase: long division from
\* the most significant limb down.
RECURSIVE BDivFrom(_, _, _, _)
BDivFrom(a, d, k, rem) ==
  IF k = 0 THEN [q |-> << >>, r |-> rem]
  ELSE LET cur  == rem * LimbBase + a[k]
           rest == BDivFrom(a, d, k - 1, cur % d)
       IN  [q |-> rest.q \o <<cur \div d>>, r |-> rest.r]

BDivSmall(a, d) ==
  LET res == BDivFrom(a, d, Len(a), 0)
  IN  [q |-> BNorm(res.q), r |-> res.r]

RECURSIVE IntBitLen(_)
IntBitLen(n) == IF n = 0 THEN 0 ELSE 1 + IntBitLen(n \div 2)

LimbBits == IntBitLen(LimbBase) - 1

BBitLen(a) ==
  IF a = << >> THEN 0 ELSE LimbBits * (Len(a) - 1) + IntBitLen(a[Len(a)])

BIsOdd(a) == a # << >> /\ a[1] % 2 = 1

Zeros(n) == [k \in 1..n |-> 0]

\* a * 2^s.
BShl(a, s) ==
  IF a = << >> THEN << >>
  ELSE Zeros(s \div LimbBits) \o BMulSmall(a, 2^(s % LimbBits))

\* floor(a / 2^s).
BShr(a, s) ==
  LET q == s \div LimbBits
  IN  IF q >= Len(a) THEN << >>
      ELSE BDivSmall(SubSeq(a, q + 1, Len(a)), 2^(s % LimbBits)).q

\* Whether a mod 2^s is not zero.
BLowBits(a, s) ==
  LET q == s \div LimbBits
  IN  \/ \E k \in 1..q : k <= Len(a) /\ a[k] # 0
      \/ q < Len(a) /\ a[q + 1] % 2^(s % LimbBits) # 0

(***************************************************************************)
(* Python floats (binary64).  A value is (-1)^neg * man * 2^exp with man    *)
(* either zero or of exactly MantBits bits.  The values evaluateone can     *)
(* produce lie between 2^-200 and 2^70, far from overflow and from the      *)
(* subnormal range, so the exponent is left unbounded.                      *)
(***************************************************************************)
MantBits == 53

FZero == [neg |-> FALSE, man |-> << >>, exp |-> 0]

\* The binary64 nearest to (-1)^neg * (n + t) * 2^e, where 0 <= t < 1 and
\* t > 0 iff sticky: round to nearest, ties to even.  An inexact value
\* (sticky) is passed with at least MantBits + 2 bits in n.
FRound(neg, n, e, sticky) ==
  LET len == BBitLen(n)
  IN  IF n = << >> THEN [neg |-> neg, man |-> << >>, exp |-> 0]
      ELSE IF len <= MantBits
      THEN [neg |-> neg, man |-> BShl(n, MantBits - len),
            exp |-> e - (MantBits - len)]
      ELSE LET s    == len - MantBits
               m2   == BShr(n, s - 1)
               st   == sticky \/ BLowBits(n, s - 1)
               m    == BShr(m2, 1)
               up   == BIsOdd(m2) /\ (st \/ BIsOdd(m))
               m1   == IF up THEN BAdd(m, <<1>>) ELSE m
           IN  IF BBitLen(m1) > MantBits
               THEN [neg |-> neg, man |-> BShr(m1, 1), exp |-> e + s + 1]
               ELSE [neg |-> neg, man |-> m1, exp |-> e + s]

Abs(n) == IF n < 0 THEN -n ELSE n

\* int -> float conversion of a small integer (exact).
FFromInt(n) == FRound(n < 0, BFromInt(Abs(n)), 0, FALSE)

\* The binary64 nearest to (-1)^neg * n * 2^e / d for an integer d,
\* 1 <= d <= LimbBase: the exact quotient, carried far enough for the
\* rounding to see it, rounded once.
FQuotient(neg, n, e, d) ==
  LET need == MantBits + 2 + LimbBits + 1 - BBitLen(n)
      k    == IF need <= 0 THEN 0 ELSE (need + LimbBits - 1) \div LimbBits
      qr   == BDivSmall(Zeros(k) \o n, d)
  IN  IF n = << >> THEN [neg |-> neg, man |-> << >>, exp |-> 0]
      ELSE FRound(neg, qr.q, e - k * LimbBits, qr.r # 0)

\* x / d for a float x and a nonzero integer d, |d| <= LimbBase.
FDivInt(x, d) == FQuotient(x.neg # (d < 0), x.man, x.exp, Abs(d))

\* x * d for a float x and an integer d, |d| <= LimbBase.
FMulInt(x, d) == FRound(x.neg # (d < 0), BMulSmall(x.man, Abs(d)), x.exp, FALSE)

\* x + y for floats of which neither is negative (a zero of either sign
\* counts as not negative): both significands on the smaller exponent,
\* added exactly, rounded once.
FAdd(x, y) ==
  IF y.man = << >> THEN [x EXCEPT !.neg = x.neg /\ y.neg]
  ELSE IF x.man = << >> THEN y
  ELSE LET e == IF x.exp < y.exp THEN x.exp ELSE y.exp
       IN  FRound(FALSE, BAdd(BShl(x.man, x.exp - e), BShl(y.man, y.exp - e)),
                  e, FALSE)

\* Comparison of a float with the integer 1.
FLtOne(x) == x.man = << >> \/ x.neg \/ x.exp + MantBits <= 0
FIsNeg(x) == x.neg /\ x.man # << >>

(***************************************************************************)
(* Python integers: sign and magnitude; zero is not negative.               *)
(***************************************************************************)
IntOf(n) == [neg |-> n < 0, mag |-> BFromInt(Abs(n))]
IsPos(i) == ~i.neg /\ i.mag # << >>
IsNeg(i) == i.neg

\* i / d for integers: Python rounds the exact quotient once.
IntTrueDiv(i, d) == FQuotient(i.neg # (d < 0), i.mag, 0, Abs(d))

\* math.floor(x) for a float x.
Floor(x) ==
  IF x.man = << >> THEN IntOf(0)
  ELSE IF x.exp >= 0 THEN [neg |-> x.neg, mag |-> BShl(x.man, x.exp)]
  ELSE LET t    == BShr(x.man, -x.exp)
           frac == BLowBits(x.man, -x.exp)
           m    == IF x.neg /\ frac THEN BAdd(t, <<1>>) ELSE t
       IN  [neg |-> x.neg /\ m # << >>, mag |-> m]

\* i % d for an integer i and a small nonzero integer d: Python's remainder
\* takes the sign of the divisor.
PyMod(i, d) ==
  LET r == BDivSmall(i.mag, Abs(d)).r
      v == (IF i.neg THEN -r ELSE r) % Abs(d)
  IN  IF d < 0 /\ v # 0 THEN v + d ELSE v

(***************************************************************************)
(* halton.evaluateone(i, b), lines 87-98.                                   *)
(***************************************************************************)
\* Line 87: the only check made on the base.
BaseRejected(base) == base = 0

\* Lines 90-91: f = 1, r = 0.
EnterLoop(index) == [i |-> index, f |-> FFromInt(1), r |-> FZero]

\* Line 93: while i > 0.
LoopGuard(st) == IsPos(st.i)

\* Lines 94-96, one pass of the loop body.  f and i % b have the sign of b
\* (or are zero), so the product added to r is never negative.
LoopBody(st, base) ==
  LET f1 == FDivInt(st.f, base)
      r1 == FAdd(st.r, FMulInt(f1, PyMod(st.i, base)))
      i1 == Floor(IntTrueDiv(st.i, base))
  IN  [i |-> i1, f |-> f1, r |-> r1]

\* The loop run to its end.  The body is a function of (i, f, r): a pass
\* that changes none of them with the guard still true repeats forever.
RECURSIVE RunLoop(_, _, _)
RunLoop(st, base, n) ==
  IF ~LoopGuard(st) THEN [kind |-> "returned", value |-> st.r, iters |-> n]
  ELSE Eval(LoopBody(st, base),
            LAMBDA nx : IF nx = st THEN [kind |-> "diverges"]
                        ELSE RunLoop(nx, base, n + 1))

\* The whole call: what it returns, or that it raises ValueError, or that
\* it never returns.
evaluateone(index, base) ==
  IF BaseRejected(base) THEN [kind |-> "ValueError"]
  ELSE RunLoop(EnterLoop(index), base, 0)


\* run_gen_primes, lines 110-113: a set as a sorted array.
RECURSIVE SortedArray(_)
SortedArray(set) ==
  IF set = {} THEN << >>
  ELSE LET least == CHOOSE v \in set : \A w \in set : v <= w
       IN  <<least>> \o SortedArray(set \ {least})

(***************************************************************************)
(* halton.evaluate(), lines 63-67.                                          *)
(***************************************************************************)
\* The cell filled first, in the order of the two loops (rows outside,
\* columns inside), among the cells of `cells`.
FirstCell(cells) ==
  CHOOSE c \in cells :
    \A d \in cells : c[1] < d[1] \/ (c[1] = d[1] /\ c[2] <= d[2])

\* The outcome of evaluate() given the outcome of each call of evaluateone:
\* the table, or what the first call that does not return does.
TableOf(calls, m, n) ==
  LET bad == { c \in (1..m) \X (1..n) : calls[c[1]][c[2]].kind # "returned" }
  IN  IF bad = {}
      THEN [kind |-> "returned", shape |-> <<m, n>>,
            cells |-> [ii \in 1..m |-> [jj \in 1..n |-> calls[ii][jj].value]]]
      ELSE [kind |-> calls[FirstCell(bad)[1]][FirstCell(bad)[2]].kind]

\* A faulty variant of evaluate: one row for each distinct index, in ascending order.
evaluate_unique(self) ==
  Eval([ii \in 1..Cardinality({self.indices[k] : k \in DOMAIN self.indices}) |->
          [jj \in 1..Len(self.bases) |->
             evaluateone(IntOf(SortedArray({self.indices[k] :
                                               k \in DOMAIN self.indices})[ii]),
                         self.bases[jj])]],
       LAMBDA calls :
         TableOf(calls, Cardinality({self.indices[k] : k \in DOMAIN self.indices}),
                 Len(self.bases)))

evaluate(self) ==
  Eval([ii \in 1..Len(self.indices) |->
          [jj \in 1..Len(self.bases) |->
             evaluateone(IntOf(self.indices[ii]), self.bases[jj])]],
       LAMBDA calls : TableOf(calls, Len(self.indices), Len(self.bases)))

(***************************************************************************)
(* halton.gen_primes(), lines 130-154.  The dictionary D is a function on   *)
(* the finite set of its keys.                                              *)
(***************************************************************************)
DictSet(dict, key, val) ==
  [kk \in DOMAIN dict \cup {key} |-> IF kk = key THEN val ELSE dict[kk]]

DictDel(dict, key) == [kk \in DOMAIN dict \ {key} |-> dict[kk]]

\* Line 151: D.setdefault(p + q, []).append(p).
AddWitness(dict, key, p) ==
  DictSet(dict, key, Append(IF key \in DOMAIN dict THEN dict[key] ELSE << >>, p))

\* Lines 150-151: for p in D[q], from the k-th witness on.
RECURSIVE MoveWitnesses(_, _, _, _)
MoveWitnesses(dict, ps, k, num) ==
  IF k > Len(ps) THEN dict
  ELSE Eval(AddWitness(dict, ps[k] + num, ps[k]),
            LAMBDA d1 : MoveWitnesses(d1, ps, k + 1, num))

\* A faulty variant of SieveComposite: the witnesses of q are dropped with q instead
\* of being moved on to their next multiples.
SieveCompositeDropsWitnesses(dict, num) == DictDel(dict, num)

\* Lines 150-152: q is composite.
SieveComposite(dict, num) == DictDel(MoveWitnesses(dict, dict[num], 1, num), num)

\* Line 142: D[q * q] = [q].
SievePrime(dict, num) == DictSet(dict, num * num, <<num>>)

\* Lines 135-154 from the top of the loop to the next yield.
RECURSIVE RunToYield(_, _)
RunToYield(dict, num) ==
  IF num \notin DOMAIN dict THEN [D |-> dict, q |-> num, started |-> TRUE]
  ELSE Eval(SieveComposite(dict, num), LAMBDA d1 : RunToYield(d1, num + 1))

\* Lines 130-133: a fresh generator, not yet started.
gen_primes == [D |-> << >>, q |-> 2, started |-> FALSE]

\* a.__next__(): the generator after its next yield; it yields its q.  A
\* generator that has yielded resumes after the yield, at line 142.
gen_next(gen) ==
  IF gen.started THEN RunToYield(SievePrime(gen.D, gen.q), gen.q + 1)
  ELSE RunToYield(gen.D, gen.q)

(***************************************************************************)
(* halton.run_gen_primes(maxprime), lines 102-114.                          *)
(***************************************************************************)
\* Lines 105-107: the loop, from the state (a, x, y).
RECURSIVE CollectPrimes(_, _, _, _)
CollectPrimes(gen, set, count, maxprime) ==
  IF ~(count < maxprime) THEN set
  ELSE Eval(gen_next(gen),
            LAMBDA g1 : CollectPrimes(g1, set \cup {g1.q}, count + 1, maxprime))

run_gen_primes(maxprime) == SortedArray(CollectPrimes(gen_primes, {}, 0, maxprime))

(***************************************************************************)
(* halton.__init__(num, dim, indices, bases), lines 42-53.  An argument is  *)
(* None or Some(value).                                                     *)
(***************************************************************************)
None == << >>
Some(v) == <<v>>

\* A faulty variant of ModeConflict: a conflict only when num and dim are both given.
ModeConflictNeedsBoth(num, dim, indices, bases) ==
  (num # None /\ dim # None) /\ (indices # None \/ bases # None)

\* Line 42.
ModeConflict(num, dim, indices, bases) ==
  (num # None \/ dim # None) /\ (indices # None \/ bases # None)

\* Line 44.
NothingSupplied(num, dim, indices, bases) ==
  num = None /\ dim = None /\ indices = None /\ bases = None

\* Line 46.
ExplicitMode(indices, bases) == indices # None /\ bases # None

\* Line 49.
CountMode(num, dim) == num # None /\ dim # None

\* Line 50: range(num) as an array.
Range(num) == [k \in 1..num |-> k - 1]

\* A faulty variant of DefaultBases: the integers 2, 3, ..., dim + 1.
ConsecutiveBases(dim) == [k \in 1..dim |-> k + 1]

\* Line 51: the bases when only their number is given.
DefaultBases(dim) == run_gen_primes(dim)

NoObject == [kind |-> "none"]

\* The object built, or the error raised.
halton_init(num, dim, indices, bases) ==
  IF ModeConflict(num, dim, indices, bases) THEN [kind |-> "ValueError"]
  ELSE IF NothingSupplied(num, dim, indices, bases) THEN [kind |-> "ValueError"]
  ELSE IF ExplicitMode(indices, bases)
  THEN [kind |-> "object", indices |-> indices[1], bases |-> bases[1]]
  ELSE IF CountMode(num, dim)
  THEN [kind |-> "object", indices |-> Range(num[1]), bases |-> DefaultBases(dim[1])]
  ELSE [kind |-> "ValueError"]

\* The most digits of base c that fit one limb.
ChunkDigits(c) == CHOOSE g \in 1..LimbBits : c^g <= LimbBase /\ c^(g + 1) > LimbBase

\* c^k, a limb's worth of factors at a time.
RECURSIVE BPow(_, _)
BPow(c, k) ==
  IF k <= ChunkDigits(c) THEN BFromInt(c^k)
  ELSE LET p == BPow(c, k - ChunkDigits(c))
       IN  IF p = << >> THEN << >> ELSE BMulSmall(p, c^ChunkDigits(c))

(***************************************************************************)
(* The radical inverse, computed exactly.                                   *)
(***************************************************************************)
RECURSIVE SmallDigits(_, _)
SmallDigits(v, c) == IF v = 0 THEN 0 ELSE 1 + SmallDigits(v \div c, c)

\* The k lowest base-c digits of v, in reverse order, as a number.
RECURSIVE RevSmall(_, _, _)
RevSmall(v, c, k) ==
  IF k = 0 THEN 0 ELSE (v % c) * c^(k - 1) + RevSmall(v \div c, c, k - 1)

\* The number of base-c digits of n (0 for n = 0).
RECURSIVE NumDigits(_, _)
NumDigits(n, c) ==
  IF BCmp(n, BFromInt(c^ChunkDigits(c))) < 0 THEN SmallDigits(BToInt(n), c)
  ELSE LET q == BDivSmall(n, c^ChunkDigits(c)).q
       IN  IF q = << >> THEN ChunkDigits(c)
           ELSE ChunkDigits(c) + NumDigits(q, c)

\* The base-c digits of n in reverse order, as a number, appended to acc:
\* with K = NumDigits(n, c), the radical inverse of n is RevDigits / c^K.
RECURSIVE RevDigits(_, _, _)
RevDigits(n, c, acc) ==
  IF BCmp(n, BFromInt(c^ChunkDigits(c))) < 0
  THEN BAdd(BMulSmall(acc, c^SmallDigits(BToInt(n), c)),
            BFromInt(RevSmall(BToInt(n), c, SmallDigits(BToInt(n), c))))
  ELSE LET qr   == BDivSmall(n, c^ChunkDigits(c))
           acc1 == BAdd(BMulSmall(acc, c^ChunkDigits(c)),
                        BFromInt(RevSmall(qr.r, c, ChunkDigits(c))))
       IN  IF acc1 = << >> /\ qr.q = << >> THEN << >>
           ELSE RevDigits(qr.q, c, acc1)

\* a * c^k.
RECURSIVE BMulPow(_, _, _)
BMulPow(a, c, k) ==
  IF k <= ChunkDigits(c) THEN BMulSmall(a, c^k)
  ELSE LET p == BMulSmall(a, c^ChunkDigits(c))
       IN  IF p = << >> THEN << >> ELSE BMulPow(p, c, k - ChunkDigits(c))

BDist(x, y) == IF BCmp(x, y) >= 0 THEN BSub(x, y) ELSE BSub(y, x)

\* Whether the float x is the rational num / c^k up to slack units of
\* 2^-MantBits:  |x.man * c^k - num * 2^-x.exp| * 2^MantBits
\*                 <= slack * c^k * 2^-x.exp.
FNear(x, num, c, k, slack) ==
  /\ ~FIsNeg(x)
  /\ x.exp <= 0
  /\ BCmp(BShl(BDist(BMulPow(x.man, c, k), BShl(num, -x.exp)), MantBits),
          BMulSmall(BShl(BPow(c, k), -x.exp), slack)) <= 0

\* A double stands for the rational it approximates: each pass rounds three
\* times, and over a call of k passes the roundings add up to less than
\* 2k + 4 units of 2^-MantBits.
IsRadicalInverse(x, index, base) ==
  FNear(x, RevDigits(index.mag, base, << >>), base,
        NumDigits(index.mag, base), 2 * NumDigits(index.mag, base) + 4)

\* Order of two integers.
ILess(x, y) ==
  IF x.neg # y.neg THEN x.neg
  ELSE IF x.neg THEN BCmp(x.mag, y.mag) > 0
  ELSE BCmp(x.mag, y.mag) < 0


(***************************************************************************)
(* Inputs.                                                                  *)
(***************************************************************************)
\* Direct calls of evaluateone.
MaxIndex    == 9
MaxNegIndex == 2
MaxBase     == 5
MaxNegBase  == 2
\* Width of the largest indices tried.
IndexBits   == 64
\* Cap of the pass counter, for the calls that never return.
MaxIters    == 70
\* The constructor's arguments and the calls made on the object.
MaxNum        == 3
MaxDim        == 3
MaxLen        == 2
MaxTableIndex == 2
MaxTableBase  == 3
\* run_gen_primes(maxprime) called on its own.
MaxPrimes     == 6

\* The largest index of k digits in base c, for every base and every k
\* that fits the index width.
LargestOfDigits(c, k) == [neg |-> FALSE, mag |-> BSub(BPow(c, k), <<1>>)]

BoundaryOf(c) ==
  { LargestOfDigits(c, k) :
      k \in { m \in 1..IndexBits :
                BBitLen(LargestOfDigits(c, m).mag) <= IndexBits } }

BoundaryIndices == UNION { BoundaryOf(c) : c \in 2..MaxBase }

SmallIndices == { IntOf(n) : n \in -MaxNegIndex..MaxIndex }
Indices == SmallIndices \cup BoundaryIndices
Bases == -MaxNegBase..MaxBase

SeqsUpTo(set, n) == UNION { [1..k -> set] : k \in 0..n }
Optional(set) == {None} \cup { Some(v) : v \in set }
TableIndices == SeqsUpTo(0..MaxTableIndex, MaxLen)
TableBases   == SeqsUpTo(0..MaxTableBase, MaxLen)

VARIABLES
  pc,       \* evaluateone: "idle", "loop", "returned", "ValueError"
  i0,       \* evaluateone: the index argument
  b,        \* evaluateone: the base argument
  i,        \* evaluateone: the working index
  f,        \* evaluateone: the weight
  r,        \* evaluateone: the accumulator, and the value returned
  iters,    \* passes of the loop body made by the current call
  args,     \* the arguments of the latest constructor call
  self,     \* the object it built, or NoObject
  ret,      \* the latest call on the class and its outcome
  ppc,      \* run_gen_primes: "idle", "loop", "returned"
  maxprime, \* run_gen_primes: its argument
  a,        \* run_gen_primes: the generator (its D, its q)
  x,        \* run_gen_primes: the set of primes collected
  y,        \* run_gen_primes: the count of primes collected
  out,      \* the array the latest call of run_gen_primes returned
  yielded   \* what the generator a has yielded, in order

loopVars  == <<pc, i0, b, i, f, r, iters>>
classVars == <<args, self, ret>>
primeVars == <<ppc, maxprime, a, x, y, out, yielded>>
vars == <<pc, i0, b, i, f, r, iters, args, self, ret,
          ppc, maxprime, a, x, y, out, yielded>>

NoArgs == [num |-> None, dim |-> None, indices |-> None, bases |-> None]

Init ==
  /\ pc = "idle"
  /\ i0 = IntOf(0)
  /\ b = 0
  /\ i = IntOf(0)
  /\ f = FFromInt(1)
  /\ r = FZero
  /\ iters = 0
  /\ args = NoArgs
  /\ self = NoObject
  /\ ret = [op |-> "none"]
  /\ ppc = "idle"
  /\ maxprime = 0
  /\ a = gen_primes
  /\ x = {}
  /\ y = 0
  /\ out = << >>
  /\ yielded = << >>

(***************************************************************************)
(* evaluateone, pass by pass.                                               *)
(***************************************************************************)
\* Lines 87-91: the call, up to the loop.
Call(index, base) ==
  /\ i0' = index
  /\ b' = base
  /\ iters' = 0
  /\ i' = index
  /\ f' = EnterLoop(index).f
  /\ r' = EnterLoop(index).r
  /\ pc' = IF BaseRejected(base) THEN "ValueError" ELSE "loop"
  /\ UNCHANGED <<classVars, primeVars>>

\* Lines 93-96: one pass.
Pass ==
  /\ pc = "loop"
  /\ LoopGuard([i |-> i, f |-> f, r |-> r])
  /\ LET nx == LoopBody([i |-> i, f |-> f, r |-> r], b)
     IN  /\ i' = nx.i
         /\ f' = nx.f
         /\ r' = nx.r
  /\ iters' = IF iters < MaxIters THEN iters + 1 ELSE iters
  /\ UNCHANGED <<pc, i0, b, classVars, primeVars>>

\* Line 98: return r.
Return ==
  /\ pc = "loop"
  /\ ~LoopGuard([i |-> i, f |-> f, r |-> r])
  /\ pc' = "returned"
  /\ UNCHANGED <<i0, b, i, f, r, iters, classVars, primeVars>>

CallOnce ==
  /\ pc = "idle"
  /\ \E index \in Indices, base \in Bases : Call(index, base)

NextLoop ==
  \/ CallOnce
  \/ Pass
  \/ Return

SpecLoop == Init /\ [][NextLoop]_vars

(***************************************************************************)
(* The class: the constructor and the calls made on the object.             *)
(***************************************************************************)
\* halton(num, dim, indices, bases): an error leaves no object.  Objects
\* share no state, so a behaviour follows one of them.
Construct(num, dim, indices, bases) ==
  /\ args' = [num |-> num, dim |-> dim, indices |-> indices, bases |-> bases]
  /\ LET res == halton_init(num, dim, indices, bases)
     IN  IF res.kind = "object"
         THEN /\ self' = [indices |-> res.indices, bases |-> res.bases]
              /\ ret' = [op |-> "init", res |-> [kind |-> "returned"]]
         ELSE /\ self' = NoObject
              /\ ret' = [op |-> "init", res |-> [kind |-> res.kind]]
  /\ UNCHANGED <<loopVars, primeVars>>

\* self.evaluate().  Neither evaluate nor evaluateone changes the object or
\* anything else a later call reads, so a behaviour makes one call on it.
Evaluate ==
  /\ self # NoObject
  /\ ret.op = "init"
  /\ ret' = [op |-> "evaluate", res |-> evaluate(self)]
  /\ UNCHANGED <<args, self, loopVars, primeVars>>

\* self.evaluateone(index, base)
EvaluateOne(index, base) ==
  /\ ret' = [op |-> "evaluateone", index |-> index, base |-> base,
             res |-> evaluateone(IntOf(index), base)]
  /\ UNCHANGED <<args, self, loopVars, primeVars>>

New ==
  /\ ret.op = "none"
  /\ \E num \in Optional(0..MaxNum), dim \in Optional(0..MaxDim),
        indices \in Optional(TableIndices), bases \in Optional(TableBases) :
        Construct(num, dim, indices, bases)

CallEvaluateOne ==
  /\ self # NoObject
  /\ ret.op = "init"
  /\ \E index \in -1..MaxTableIndex, base \in 0..MaxTableBase :
        EvaluateOne(index, base)

Next ==
  \/ New
  \/ Evaluate
  \/ CallEvaluateOne

Spec == Init /\ [][Next]_vars

(***************************************************************************)
(* run_gen_primes, one a.__next__() at a time.                              *)
(***************************************************************************)
\* Lines 102-104.
RunGenPrimes(n) ==
  /\ maxprime' = n
  /\ x' = {}
  /\ y' = 0
  /\ a' = gen_primes
  /\ yielded' = << >>
  /\ ppc' = "loop"
  /\ UNCHANGED <<out, loopVars, classVars>>

\* Lines 105-107.
NextPrime ==
  /\ ppc = "loop"
  /\ y < maxprime
  /\ a' = gen_next(a)
  /\ yielded' = Append(yielded, a'.q)
  /\ x' = x \cup {a'.q}
  /\ y' = y + 1
  /\ UNCHANGED <<ppc, maxprime, out, loopVars, classVars>>

\* Lines 110-114.
ReturnPrimes ==
  /\ ppc = "loop"
  /\ ~(y < maxprime)
  /\ out' = SortedArray(x)
  /\ ppc' = "returned"
  /\ UNCHANGED <<maxprime, a, x, y, yielded, loopVars, classVars>>

CallRunGenPrimes ==
  /\ ppc \in {"idle", "returned"}
  /\ \E n \in 0..MaxPrimes : RunGenPrimes(n)

NextPrimes ==
  \/ CallRunGenPrimes
  \/ NextPrime
  \/ ReturnPrimes

SpecPrimes == Init /\ [][NextPrimes]_vars

(***************************************************************************)
(* Claims on evaluateone, checked under SpecLoop.                           *)
(***************************************************************************)

\* C1: for every index i >= 0 and base b >= 2 the value evaluateone(i, b)
\* returns is the radical inverse of i in base b, the sum of d_j / b^(j+1)
\* over the base-b digits d_j of i (0 for i = 0).
C1_ReturnsRadicalInverse ==
  (pc = "returned" /\ b >= 2 /\ ~IsNeg(i0)) => IsRadicalInverse(r, i0, b)

\* C2: for every index i >= 0 and base b >= 2 the accumulator r is in
\* [0, 1) after every pass of the loop, and so is the value returned.
C2_AccumulatorInUnitInterval ==
  (pc \in {"loop", "returned"} /\ b >= 2 /\ ~IsNeg(i0))
     => ~FIsNeg(r) /\ FLtOne(r)

\* C8: evaluateone(i, b) raises ValueError for every base b <= 0 and every
\* index i, and never returns a value for such a base.
C8_NonPositiveBaseRejected ==
  (pc # "idle" /\ b <= 0) => pc = "ValueError"

\* C9: for every index i >= 0 and base b >= 2 each pass makes the working
\* index strictly smaller and leaves it non-negative, and the call returns
\* after exactly as many passes as i has base-b digits: at most IndexBits
\* passes for an index of IndexBits bits in base 2.
C9_OnePassPerDigit ==
  [][ (b >= 2 /\ ~IsNeg(i0) /\ pc = "loop")
        => /\ pc' = "loop" => ILess(i', i) /\ ~IsNeg(i')
           /\ pc' = "returned"
                => /\ iters = NumDigits(i0.mag, b)
                   /\ b = 2 => iters <= IndexBits ]_vars

\* C10: evaluateone(i, 1) with i > 0 raises nothing and never returns: every
\* pass leaves the index unchanged, f at 1 and r at 0, so the loop goes on.
C10_BaseOneNeverReturns ==
  [][ (b' = 1 /\ IsPos(i0'))
        => /\ pc' = "loop"
           /\ pc = "loop" => i' = i /\ f' = FFromInt(1) /\ r' = FZero ]_vars

(***************************************************************************)
(* Claims on the class, checked under Spec.                                 *)
(***************************************************************************)
IsPrime(n) == n >= 2 /\ \A d \in 2..(n - 1) : n % d # 0

\* seq lists the primes from 2 on, none left out: its k-th entry is the
\* k-th prime.
IsFirstPrimes(seq) ==
  \A k \in 1..Len(seq) :
    IsPrime(seq[k]) /\ Cardinality({ p \in 2..seq[k] : IsPrime(p) }) = k

AllReturn(obj) ==
  \A ii \in 1..Len(obj.indices), jj \in 1..Len(obj.bases) :
    evaluateone(IntOf(obj.indices[ii]), obj.bases[jj]).kind = "returned"

\* C4: evaluate() returns a table of Len(indices) rows and Len(bases)
\* columns whose cell (row, column) is evaluateone(indices[row],
\* bases[column]): rows in the order of the indices, columns in the order of
\* the bases, a repeated index giving a repeated row.
C4_TableOfEvaluateone ==
  (ret.op = "evaluate" /\ AllReturn(self))
     => /\ ret.res.kind = "returned"
        /\ ret.res.shape = <<Len(self.indices), Len(self.bases)>>
        /\ \A ii \in 1..Len(self.indices), jj \in 1..Len(self.bases) :
             ret.res.cells[ii][jj]
               = evaluateone(IntOf(self.indices[ii]), self.bases[jj]).value

C4_Witness ==
  /\ ret.op = "evaluate"
  /\ self.indices = <<1, 1>>
  /\ self.bases = <<3, 2>>
  /\ ret.res.kind = "returned"
  /\ ret.res.cells[1] = ret.res.cells[2]
  /\ ret.res.cells[1][1] # ret.res.cells[1][2]

CountOnly(given) ==
  given.num # None /\ given.dim # None /\ given.indices = None /\ given.bases = None

ExplicitOnly(given) ==
  given.indices # None /\ given.bases # None /\ given.num = None /\ given.dim = None

\* C5: the constructor builds an object if and only if either num and dim
\* are both supplied and indices and bases both absent, or indices and bases
\* both supplied and num and dim both absent; any other combination raises
\* ValueError and builds no object.
C5_ExactlyOneMode ==
  ret.op # "none"
     => /\ self # NoObject <=> (CountOnly(args) \/ ExplicitOnly(args))
        /\ ret.op = "init"
             => ret.res.kind = IF CountOnly(args) \/ ExplicitOnly(args)
                               THEN "returned" ELSE "ValueError"

C5_Witness ==
  /\ ret.op = "init"
  /\ args.num # None
  /\ args.dim = None
  /\ args.indices = None
  /\ args.bases = None
  /\ ret.res.kind = "ValueError"
  /\ self = NoObject

C7_ZeroBaseRejected ==
  /\ (ret.op = "evaluateone" /\ ret.base = 0) => ret.res.kind = "ValueError"
  /\ (ret.op = "evaluate" /\ self.indices # << >>
        /\ \E jj \in 1..Len(self.bases) : self.bases[jj] = 0)
       => ret.res.kind = "ValueError"

(***************************************************************************)
(* Claim on the prime generator, checked under SpecPrimes.                  *)
(***************************************************************************)

\* C3: run_gen_primes(n) returns exactly n values, the n smallest primes in
\* increasing order from 2; the generator yields every prime and no
\* composite, in ascending order, and each call starts again from 2.
C3_FirstPrimes ==
  /\ Len(yielded) = y
  /\ IsFirstPrimes(yielded)
  /\ IsFirstPrimes(out)
  /\ ppc = "returned" => Len(out) = maxprime /\ out = yielded

C3_Witness ==
  /\ ppc = "returned"
  /\ maxprime = 5
  /\ out = <<2, 3, 5, 7, 11>>

====

